---- MODULE Spec2Model ----
(***************************************************************************)
(* Model of dashboard/dashboard.py: a Streamlit script that loads a fixed  *)
(* order dataset, restricts it to a date range picked in the sidebar and   *)
(* derives four tables (daily orders, customers by city, product category  *)
(* sales, RFM) plus two scalar metrics.  Streamlit re-executes the whole   *)
(* script, top to bottom, on every change of the date widget; one action   *)
(* of the model is one such execution.                                     *)
(*                                                                         *)
(* Representation.  A timestamp is the number of seconds since             *)
(* 1970-01-01 00:00:00 (pandas keeps datetime64 values as such a count),   *)
(* a calendar date is the number of days since 1970-01-01, a price is an   *)
(* integer amount of cents, a DataFrame is a sequence of records (its rows *)
(* in positional order).  NaN/NaT cells are not modelled: every cell of    *)
(* the dataset holds a value.                                              *)
(***************************************************************************)
EXTENDS Integers, Sequences, FiniteSets, TLC

VARIABLES
    csv,                          \* content of dashboard/main_data.csv
    quicksort_keeps_ties,         \* how this build's numpy quicksort orders equal keys
    df,                           \* module-level df
    min_date, max_date,           \* module-level min_date, max_date
    start_date, end_date,         \* the two dates returned by st.date_input
    main_df,
    daily_orders_df,
    total_customer_by_city_df,
    product_category_sales_df,
    rfm_df,
    total_orders,
    total_revenue

vars == <<csv, quicksort_keeps_ties, df, min_date, max_date, start_date, end_date,
          main_df, daily_orders_df, total_customer_by_city_df,
          product_category_sales_df, rfm_df, total_orders, total_revenue>>

----------------------------------------------------------------------------
(* Bounds of the model *)

\* Largest number of rows of a modelled dataset.
MaxRows == 3

----------------------------------------------------------------------------
(* Time *)

SecondsPerDay == 24 * 60 * 60

\* Days from 1970-01-01 to the civil date y-m-d (proleptic Gregorian).
DaysFromCivil(y, m, d) ==
    LET yy  == IF m <= 2 THEN y - 1 ELSE y
        era == yy \div 400
        yoe == yy - era * 400
        mp  == (m + 9) % 12
        doy == (153 * mp + 2) \div 5 + d - 1
        doe == yoe * 365 + yoe \div 4 - yoe \div 100 + doy
    IN  era * 146097 + doe - 719468

\* pd.Timestamp("y-m-d H:M:S") and the parse_dates columns of read_csv.
Timestamp(y, m, d, H, M, S) ==
    DaysFromCivil(y, m, d) * SecondsPerDay + H * 3600 + M * 60 + S

\* Series.dt.date: the calendar date of a timestamp, its time of day dropped.
dt_date(ts) == ts \div SecondsPerDay

\* A day count that rounds to the nearest whole day.
dt_days_Rounded(delta) == (delta + SecondsPerDay \div 2) \div SecondsPerDay

\* Series.dt.days of a Timedelta: whole days, rounded towards minus infinity.
dt_days(delta) == delta \div SecondsPerDay

\* The reference instant of create_rfm_df.
latest_date == Timestamp(2018, 9, 3, 9, 6, 57)

----------------------------------------------------------------------------
(* Generic column helpers *)

\* Series.sum() of column col; 0 for an empty column.
RECURSIVE ColSum(_, _)
ColSum(t, col) ==
    IF t = <<>> THEN 0 ELSE Head(t)[col] + ColSum(Tail(t), col)

\* Series.nunique() of column col.
NUnique(t, col) == Cardinality({t[i][col] : i \in DOMAIN t})

\* Series.max() / Series.min() of a non-empty column.
ColMax(t, col) == CHOOSE v \in {t[i][col] : i \in DOMAIN t} :
                      \A i \in DOMAIN t : t[i][col] <= v
ColMin(t, col) == CHOOSE v \in {t[i][col] : i \in DOMAIN t} :
                      \A i \in DOMAIN t : v <= t[i][col]

\* Series.mean() of a non-empty integer column, as the exact fraction sum/count.
ColMean(t, col) == [num |-> ColSum(t, col), den |-> Len(t)]

\* Python's str ordering on the strings the modelled datasets use
\* (code-point order: upper case before lower case).
Lexicographic == <<"A", "B", "C", "P1", "P2", "RJ", "SP", "X", "Y", "Z", "books", "toys">>

StrRank(s) == CHOOSE i \in DOMAIN Lexicographic : Lexicographic[i] = s

\* groupby(..., sort=True): the group keys in ascending order.
SortedKeys(S) ==
    [k \in 1..Cardinality(S) |->
        CHOOSE x \in S : Cardinality({y \in S : StrRank(y) < StrRank(x)}) = k - 1]

\* A sort_values that lost ascending=False: rows in non-decreasing order of col.
SortValuesAsc(t, col, keeps) ==
    LET Before(i, j) == \/ t[i][col] < t[j][col]
                        \/ /\ t[i][col] = t[j][col]
                           /\ IF keeps THEN i < j ELSE i > j
    IN  [k \in 1..Len(t) |->
            t[CHOOSE i \in 1..Len(t) :
                  Cardinality({j \in 1..Len(t) : Before(j, i)}) = k - 1]]

\* DataFrame.sort_values(by=col, ascending=False) with the default
\* kind="quicksort": rows in non-increasing order of col.  The sort is not
\* stable, so the order of rows with equal keys is whatever the numpy build
\* produces: keeps = TRUE is the order a stable run leaves (equal keys stay in
\* their order before the sort), keeps = FALSE the opposite order.
SortValuesDesc(t, col, keeps) ==
    LET Before(i, j) == \/ t[i][col] > t[j][col]
                        \/ /\ t[i][col] = t[j][col]
                           /\ IF keeps THEN i < j ELSE i > j
    IN  [k \in 1..Len(t) |->
            t[CHOOSE i \in 1..Len(t) :
                  Cardinality({j \in 1..Len(t) : Before(j, i)}) = k - 1]]

----------------------------------------------------------------------------
(* The helper functions of dashboard.py *)

\* A date filter that compares the timestamps themselves with midnight of the
\* two dates (timestamp granularity instead of day granularity).
DateFilterByTimestamp(d, s, e) ==
    SelectSeq(d, LAMBDA r : /\ r.order_purchase_timestamp >= s * SecondsPerDay
                            /\ r.order_purchase_timestamp <= e * SecondsPerDay)

\* The date filter: df[(ts.dt.date >= start_date) & (ts.dt.date <= end_date)].
DateFilter(d, s, e) ==
    SelectSeq(d, LAMBDA r : /\ dt_date(r.order_purchase_timestamp) >= s
                            /\ dt_date(r.order_purchase_timestamp) <= e)

\* A daily aggregation that counts the rows of a day ("count") instead of its
\* distinct order ids ("nunique").
create_daily_orders_df_CountRows(d) ==
    IF d = <<>> THEN <<>>
    ELSE
      LET first == dt_date(ColMin(d, "order_purchase_timestamp"))
          last  == dt_date(ColMax(d, "order_purchase_timestamp"))
          Bin(day) == SelectSeq(d, LAMBDA r : dt_date(r.order_purchase_timestamp) = day)
      IN  [i \in 1..(last - first + 1) |->
              [order_date  |-> (first + i - 1) * SecondsPerDay,
               order_count |-> Len(Bin(first + i - 1)),
               revenue     |-> ColSum(Bin(first + i - 1), "price")]]

\* A daily aggregation by groupby on the date: only the days that have a row.
create_daily_orders_df_PresentDays(d) ==
    LET days == {dt_date(d[i].order_purchase_timestamp) : i \in DOMAIN d}
        Bin(day) == SelectSeq(d, LAMBDA r : dt_date(r.order_purchase_timestamp) = day)
        NthDay(k) == CHOOSE x \in days : Cardinality({y \in days : y < x}) = k - 1
    IN  [k \in 1..Cardinality(days) |->
            [order_date  |-> NthDay(k) * SecondsPerDay,
             order_count |-> NUnique(Bin(NthDay(k)), "order_id"),
             revenue     |-> ColSum(Bin(NthDay(k)), "price")]]

\* A daily resampling that answers an empty frame with one empty bin.
create_daily_orders_df_EmptyBin(d) ==
    IF d = <<>> THEN <<[order_date |-> 0, order_count |-> 0, revenue |-> 0]>>
    ELSE
      LET first == dt_date(ColMin(d, "order_purchase_timestamp"))
          last  == dt_date(ColMax(d, "order_purchase_timestamp"))
          Bin(day) == SelectSeq(d, LAMBDA r : dt_date(r.order_purchase_timestamp) = day)
      IN  [i \in 1..(last - first + 1) |->
              [order_date  |-> (first + i - 1) * SecondsPerDay,
               order_count |-> NUnique(Bin(first + i - 1), "order_id"),
               revenue     |-> ColSum(Bin(first + i - 1), "price")]]

\* resample(rule="D") makes one bin per calendar day from the day of the
\* earliest row to the day of the latest row, the days without a row included
\* (nunique of an empty bin is 0, sum of an empty bin is 0); reset_index turns
\* the bin label, midnight of the day, into the first column.
create_daily_orders_df(d) ==
    IF d = <<>> THEN <<>>
    ELSE
      LET first == dt_date(ColMin(d, "order_purchase_timestamp"))
          last  == dt_date(ColMax(d, "order_purchase_timestamp"))
          Bin(day) == SelectSeq(d, LAMBDA r : dt_date(r.order_purchase_timestamp) = day)
      IN  [i \in 1..(last - first + 1) |->
              [order_date  |-> (first + i - 1) * SecondsPerDay,
               order_count |-> NUnique(Bin(first + i - 1), "order_id"),
               revenue     |-> ColSum(Bin(first + i - 1), "price")]]

\* A city aggregation that counts the rows of a city ("count") instead of its
\* distinct customers ("nunique").
create_total_customer_by_city_df_CountRows(d, keeps) ==
    LET keys == SortedKeys({d[i].customer_city : i \in DOMAIN d})
        Group(k) == SelectSeq(d, LAMBDA r : r.customer_city = k)
        grouped == [i \in DOMAIN keys |->
                       [customer_city   |-> keys[i],
                        geolocation_lat |-> ColMean(Group(keys[i]), "geolocation_lat"),
                        geolocation_lng |-> ColMean(Group(keys[i]), "geolocation_lng"),
                        total_customer  |-> Len(Group(keys[i]))]]
    IN  SortValuesDesc(grouped, "total_customer", keeps)

create_total_customer_by_city_df(d, keeps) ==
    LET keys == SortedKeys({d[i].customer_city : i \in DOMAIN d})
        Group(k) == SelectSeq(d, LAMBDA r : r.customer_city = k)
        grouped == [i \in DOMAIN keys |->
                       [customer_city   |-> keys[i],
                        geolocation_lat |-> ColMean(Group(keys[i]), "geolocation_lat"),
                        geolocation_lng |-> ColMean(Group(keys[i]), "geolocation_lng"),
                        total_customer  |-> NUnique(Group(keys[i]), "customer_unique_id")]]
    IN  SortValuesDesc(grouped, "total_customer", keeps)

create_product_category_sales_df(d, keeps) ==
    LET keys == SortedKeys({d[i].product_category_name_english : i \in DOMAIN d})
        Group(k) == SelectSeq(d, LAMBDA r : r.product_category_name_english = k)
        grouped == [i \in DOMAIN keys |->
                       [product_category_name_english |-> keys[i],
                        total_product |-> NUnique(Group(keys[i]), "product_id"),
                        total_order   |-> NUnique(Group(keys[i]), "order_id"),
                        total_price   |-> ColSum(Group(keys[i]), "price"),
                        total_freight |-> ColSum(Group(keys[i]), "freight_value")]]
    IN  SortValuesDesc(grouped, "total_order", keeps)

\* Length of the hard-coded label index, np.arange(95420), scaled down so that
\* a dataset of MaxRows rows can hold more customers than it has entries.
LabelIndexLen == 2

\* The cell of a row that the label Series has no entry for.
NaN == <<"NaN">>

DigitChar == <<"0", "1", "2", "3", "4", "5", "6", "7", "8", "9">>

\* astype(str) of a non-negative integer: its decimal digits.
RECURSIVE astype_str(_)
astype_str(n) ==
    IF n < 10 THEN <<DigitChar[n + 1]>>
    ELSE astype_str(n \div 10) \o <<DigitChar[(n % 10) + 1]>>

\* "C" + pd.Series(np.arange(95420).astype(str)), a Series indexed 0..95419.
LabelSeries == [i \in 0..(LabelIndexLen - 1) |-> <<"C">> \o astype_str(i)]

\* Column assignment aligns the Series with the frame's index (0..K-1 after
\* groupby(as_index=False)): index i takes the Series entry i, NaN if none.
AssignLabel(i) == IF i \in DOMAIN LabelSeries THEN LabelSeries[i] ELSE NaN

\* An RFM aggregation whose subtraction is the wrong way round (latest purchase
\* minus reference instant).
create_rfm_df_Swapped(d) ==
    LET keys == SortedKeys({d[i].customer_unique_id : i \in DOMAIN d})
        Group(k) == SelectSeq(d, LAMBDA r : r.customer_unique_id = k)
    IN  [i \in DOMAIN keys |->
            [customer_unique_id |-> keys[i],
             recency   |-> dt_days(ColMax(Group(keys[i]), "order_purchase_timestamp")
                                   - latest_date),
             frequency |-> NUnique(Group(keys[i]), "order_id"),
             monetary  |-> ColSum(Group(keys[i]), "price"),
             customer_label_id |-> AssignLabel(i - 1)]]

create_rfm_df(d) ==
    LET keys == SortedKeys({d[i].customer_unique_id : i \in DOMAIN d})
        Group(k) == SelectSeq(d, LAMBDA r : r.customer_unique_id = k)
    IN  [i \in DOMAIN keys |->
            [customer_unique_id |-> keys[i],
             recency   |-> dt_days(latest_date
                                   - ColMax(Group(keys[i]), "order_purchase_timestamp")),
             frequency |-> NUnique(Group(keys[i]), "order_id"),
             monetary  |-> ColSum(Group(keys[i]), "price"),
             customer_label_id |-> AssignLabel(i - 1)]]

----------------------------------------------------------------------------
(* The datasets of the model *)

\* One line of main_data.csv as read_csv parses it (the columns the script reads).
Row(o, c, city, cat, prod, price, ts) ==
    [order_id |-> o, customer_unique_id |-> c, customer_city |-> city,
     product_category_name_english |-> cat, product_id |-> prod,
     price |-> price, freight_value |-> 1,
     geolocation_lat |-> -23, geolocation_lng |-> -46,
     order_purchase_timestamp |-> ts]

\* Rows around the day boundaries of 2018-08-02.
FilterRows ==
    {Row(o, "X", "SP", "toys", "P1", 1, ts) :
        o \in {"A", "B"},
        ts \in {Timestamp(2018, 8, 1, 23, 59, 59), Timestamp(2018, 8, 2, 0, 0, 0),
                Timestamp(2018, 8, 2, 23, 59, 59), Timestamp(2018, 8, 3, 0, 0, 0)}}

\* Orders and prices on two days with a day between them.
DailyRows ==
    {Row(o, "X", "SP", "toys", "P1", p, ts) :
        o \in {"A", "B"}, p \in {1, 2},
        ts \in {Timestamp(2018, 8, 1, 12, 0, 0), Timestamp(2018, 8, 3, 12, 0, 0)}}

\* Customers and cities over two days.
CityRows ==
    {Row("A", c, city, "toys", "P1", 1, ts) :
        c \in {"X", "Y"}, city \in {"RJ", "SP"},
        ts \in {Timestamp(2018, 8, 1, 12, 0, 0), Timestamp(2018, 8, 2, 12, 0, 0)}}

\* Orders and product categories over two days.
ProductRows ==
    {Row(o, "X", "SP", cat, "P1", 1, ts) :
        o \in {"A", "B"}, cat \in {"books", "toys"},
        ts \in {Timestamp(2018, 8, 1, 12, 0, 0), Timestamp(2018, 8, 2, 12, 0, 0)}}

\* Customers and orders one second less than a day before the reference
\* instant and one second after it, at a price of 2, and free items.
RfmRows ==
    {Row(o, c, "SP", "toys", "P1", 2, ts) :
        o \in {"A", "B"}, c \in {"X", "Y"},
        ts \in {Timestamp(2018, 9, 2, 9, 6, 58), Timestamp(2018, 9, 3, 9, 6, 58)}}
    \cup
    {Row("A", c, "SP", "toys", "P1", 0, ts) :
        c \in {"X", "Y"},
        ts \in {Timestamp(2018, 9, 2, 9, 6, 58), Timestamp(2018, 9, 3, 9, 6, 58)}}

\* Customers and orders on 2018-08-01, at the reference time of day and one
\* second later, and on the next day.
RecencyRows ==
    {Row(o, c, "SP", "toys", "P1", 2, ts) :
        o \in {"A", "B"}, c \in {"X", "Y"},
        ts \in {Timestamp(2018, 8, 1, 9, 6, 57), Timestamp(2018, 8, 1, 9, 6, 58),
                Timestamp(2018, 8, 2, 0, 0, 0)}}

\* More customers than the label index has entries.
LabelRows ==
    {Row(o, c, "SP", "toys", "P1", 1, ts) :
        o \in {"A", "B"}, c \in {"X", "Y", "Z"},
        ts \in {Timestamp(2018, 8, 1, 12, 0, 0), Timestamp(2018, 8, 2, 12, 0, 0)}}

\* The non-empty files of at most MaxRows lines over a set of rows.
Datasets(rows) == UNION {[1..n -> rows] : n \in 1..MaxRows}

----------------------------------------------------------------------------
(* The script *)

\* State after the first execution of the script on the file c: date_input
\* returns its default value, [min_date, max_date].
InitFrom(rows, builds) ==
    \E c \in Datasets(rows), q \in builds :
        /\ csv = c
        /\ quicksort_keeps_ties = q
        /\ df = c
        /\ max_date = ColMax(df, "order_purchase_timestamp")
        /\ min_date = ColMin(df, "order_purchase_timestamp")
        /\ start_date = dt_date(min_date)
        /\ end_date = dt_date(max_date)
        /\ main_df = DateFilter(df, start_date, end_date)
        /\ daily_orders_df = create_daily_orders_df(main_df)
        /\ total_customer_by_city_df =
               create_total_customer_by_city_df(main_df, quicksort_keeps_ties)
        /\ product_category_sales_df =
               create_product_category_sales_df(main_df, quicksort_keeps_ties)
        /\ rfm_df = create_rfm_df(main_df)
        /\ total_orders = ColSum(daily_orders_df, "order_count")
        /\ total_revenue = ColSum(daily_orders_df, "revenue")

\* A rerun that filtered the previous main_df instead of the loaded df.
DateInputFromMainDf(s, e) ==
    /\ s \in dt_date(min_date)..dt_date(max_date)
    /\ e \in dt_date(min_date)..dt_date(max_date)
    /\ s <= e
    /\ <<s, e>> # <<start_date, end_date>>
    /\ df' = csv
    /\ max_date' = ColMax(df', "order_purchase_timestamp")
    /\ min_date' = ColMin(df', "order_purchase_timestamp")
    /\ start_date' = s
    /\ end_date' = e
    /\ main_df' = DateFilter(main_df, start_date', end_date')
    /\ daily_orders_df' = create_daily_orders_df(main_df')
    /\ total_customer_by_city_df' =
           create_total_customer_by_city_df(main_df', quicksort_keeps_ties)
    /\ product_category_sales_df' =
           create_product_category_sales_df(main_df', quicksort_keeps_ties)
    /\ rfm_df' = create_rfm_df(main_df')
    /\ total_orders' = ColSum(daily_orders_df', "order_count")
    /\ total_revenue' = ColSum(daily_orders_df', "revenue")
    /\ UNCHANGED <<csv, quicksort_keeps_ties>>

\* The user picks the range [s, e] in the sidebar (the widget offers the days
\* from min_date to max_date and returns the pair in order); Streamlit then
\* executes the script again from its first line: the file is read again and
\* every table is computed again.
DateInput(s, e) ==
    /\ s \in dt_date(min_date)..dt_date(max_date)
    /\ e \in dt_date(min_date)..dt_date(max_date)
    /\ s <= e
    /\ <<s, e>> # <<start_date, end_date>>
    /\ df' = csv
    /\ max_date' = ColMax(df', "order_purchase_timestamp")
    /\ min_date' = ColMin(df', "order_purchase_timestamp")
    /\ start_date' = s
    /\ end_date' = e
    /\ main_df' = DateFilter(df', start_date', end_date')
    /\ daily_orders_df' = create_daily_orders_df(main_df')
    /\ total_customer_by_city_df' =
           create_total_customer_by_city_df(main_df', quicksort_keeps_ties)
    /\ product_category_sales_df' =
           create_product_category_sales_df(main_df', quicksort_keeps_ties)
    /\ rfm_df' = create_rfm_df(main_df')
    /\ total_orders' = ColSum(daily_orders_df', "order_count")
    /\ total_revenue' = ColSum(daily_orders_df', "revenue")
    /\ UNCHANGED <<csv, quicksort_keeps_ties>>

\* The days the date widget can return for the modelled datasets.
Days == DaysFromCivil(2018, 8, 1)..DaysFromCivil(2018, 9, 3)

Next == \E s \in Days, e \in Days : DateInput(s, e)

\* The datasets whose rows share one city and one category have no equal sort
\* keys to order, so one build stands for both.
InitFilter  == InitFrom(FilterRows, {TRUE})
InitDaily   == InitFrom(DailyRows, {TRUE})
InitCity    == InitFrom(CityRows, BOOLEAN)
InitProduct == InitFrom(ProductRows, BOOLEAN)
InitRfm     == InitFrom(RfmRows, {TRUE})
InitRecency == InitFrom(RecencyRows, {TRUE})
InitLabel   == InitFrom(LabelRows, {TRUE})

SpecFilter  == InitFilter  /\ [][Next]_vars
SpecDaily   == InitDaily   /\ [][Next]_vars
SpecCity    == InitCity    /\ [][Next]_vars
SpecProduct == InitProduct /\ [][Next]_vars
SpecRfm     == InitRfm     /\ [][Next]_vars
SpecRecency == InitRecency /\ [][Next]_vars
SpecLabel   == InitLabel   /\ [][Next]_vars

----------------------------------------------------------------------------
(* Date filter *)

\* The rows of df whose purchase date lies in the selected range.
InRange(r) == /\ start_date <= dt_date(r.order_purchase_timestamp)
              /\ dt_date(r.order_purchase_timestamp) <= end_date

KeptIndices == {i \in DOMAIN df : InRange(df[i])}

\* C1: for every dataset and every range [s, e] with s <= e, main_df holds
\* exactly the rows of df whose order_purchase_timestamp, truncated to its
\* calendar date, lies in [s, e] (both bounds inclusive, whatever the time of
\* day), in their original relative order.
C1_DateFilterExact ==
    start_date <= end_date =>
        /\ Len(main_df) = Cardinality(KeptIndices)
        /\ \A k \in 1..Len(main_df) :
               \E i \in KeptIndices :
                   /\ Cardinality({j \in KeptIndices : j < i}) = k - 1
                   /\ main_df[k] = df[i]

\* A one-day range that keeps a row of the last second of the day and a row of
\* its first second, and drops a row of the day before.
C1_Witness ==
    /\ start_date = end_date
    /\ Len(main_df) >= 2
    /\ Len(main_df) < Len(df)
    /\ \E k \in DOMAIN main_df :
           main_df[k].order_purchase_timestamp = end_date * SecondsPerDay + SecondsPerDay - 1
    /\ \E k \in DOMAIN main_df :
           main_df[k].order_purchase_timestamp = start_date * SecondsPerDay

C9_HistoryIndependent ==
    /\ df = csv
    /\ main_df = DateFilter(csv, start_date, end_date)
    /\ daily_orders_df = create_daily_orders_df(main_df)
    /\ total_customer_by_city_df =
           create_total_customer_by_city_df(main_df, quicksort_keeps_ties)
    /\ product_category_sales_df =
           create_product_category_sales_df(main_df, quicksort_keeps_ties)
    /\ rfm_df = create_rfm_df(main_df)
    /\ total_orders = ColSum(daily_orders_df, "order_count")
    /\ total_revenue = ColSum(daily_orders_df, "revenue")

\* A range other than the default one is selected and it keeps some rows of a
\* dataset and drops others.
C9_Witness ==
    /\ <<start_date, end_date>> # <<dt_date(min_date), dt_date(max_date)>>
    /\ main_df # <<>>
    /\ Len(main_df) < Len(df)

----------------------------------------------------------------------------
(* Daily Orders *)

\* The calendar days on which a row of main_df was purchased.
PurchaseDays == {dt_date(main_df[i].order_purchase_timestamp) : i \in DOMAIN main_df}

RowsOfDay(day) ==
    {i \in DOMAIN main_df : dt_date(main_df[i].order_purchase_timestamp) = day}

\* Every order of main_df has all its rows on one calendar day.
OrdersWithinOneDay ==
    \A i, j \in DOMAIN main_df :
        main_df[i].order_id = main_df[j].order_id =>
            dt_date(main_df[i].order_purchase_timestamp)
                = dt_date(main_df[j].order_purchase_timestamp)

\* C2 as stated: for every filtered row collection, the sum of order_count over
\* Daily Orders (the "Total orders" metric) equals the number of distinct
\* order_id values of the filtered collection, and the sum of revenue equals
\* the sum of price over the filtered collection.
C2_TotalsAsStated ==
    /\ total_orders = Cardinality({main_df[i].order_id : i \in DOMAIN main_df})
    /\ total_revenue = ColSum(main_df, "price")

\* C2, amended: the sum of revenue over Daily Orders equals the sum of price
\* over the filtered collection; the sum of order_count equals the number of
\* distinct order_id values provided every order has all its rows on one
\* calendar day (an order is counted once for each day it has a row on).
C2_Totals ==
    /\ total_revenue = ColSum(main_df, "price")
    /\ total_orders =
           Cardinality({<<main_df[i].order_id,
                          dt_date(main_df[i].order_purchase_timestamp)>> :
                            i \in DOMAIN main_df})
    /\ OrdersWithinOneDay =>
           total_orders = Cardinality({main_df[i].order_id : i \in DOMAIN main_df})

\* Two orders on two days, one of them with two rows.
C2_Witness ==
    /\ OrdersWithinOneDay
    /\ Len(main_df) = 3
    /\ Cardinality(PurchaseDays) = 2
    /\ total_orders = 2
    /\ total_revenue = ColSum(main_df, "price")

\* C5 as stated: create_daily_orders_df returns exactly one row for each
\* calendar day on which a filtered row was purchased and no row for any other
\* day, in ascending date order.
C5_RowsAsStated ==
    /\ Len(daily_orders_df) = Cardinality(PurchaseDays)
    /\ {daily_orders_df[k].order_date : k \in DOMAIN daily_orders_df}
           = {day * SecondsPerDay : day \in PurchaseDays}
    /\ \A k \in 1..(Len(daily_orders_df) - 1) :
           daily_orders_df[k].order_date < daily_orders_df[k + 1].order_date

\* C5, amended: create_daily_orders_df returns exactly one row for each
\* calendar day from the earliest to the latest purchase day of the filtered
\* rows, in ascending date order; a day of that span without a purchase has a
\* row too, with order_count 0 and revenue 0; an empty collection has no row.
C5_Rows ==
    /\ main_df = <<>> => daily_orders_df = <<>>
    /\ main_df # <<>> =>
           LET first == CHOOSE x \in PurchaseDays : \A y \in PurchaseDays : x <= y
               last  == CHOOSE x \in PurchaseDays : \A y \in PurchaseDays : y <= x
           IN  /\ Len(daily_orders_df) = last - first + 1
               /\ \A k \in DOMAIN daily_orders_df :
                      /\ daily_orders_df[k].order_date = (first + k - 1) * SecondsPerDay
                      /\ daily_orders_df[k].order_count =
                             Cardinality({main_df[i].order_id : i \in RowsOfDay(first + k - 1)})
                      /\ (first + k - 1) \notin PurchaseDays =>
                             /\ daily_orders_df[k].order_count = 0
                             /\ daily_orders_df[k].revenue = 0

\* Purchases on two days with a day without purchase between them.
C5_Witness ==
    /\ Cardinality(PurchaseDays) = 2
    /\ Len(daily_orders_df) = 3
    /\ daily_orders_df[2].order_count = 0
    /\ daily_orders_df[1].order_count >= 1
    /\ daily_orders_df[3].order_count >= 1

----------------------------------------------------------------------------
(* Customer by City *)

\* Every customer of main_df has all its rows in one city.
CustomersWithinOneCity ==
    \A i, j \in DOMAIN main_df :
        main_df[i].customer_unique_id = main_df[j].customer_unique_id =>
            main_df[i].customer_city = main_df[j].customer_city

\* C3 as stated: for every filtered row collection, the total_customer values
\* of create_total_customer_by_city_df, summed over all cities, equal the
\* number of distinct customer_unique_id values of the filtered collection.
C3_CityTotalAsStated ==
    ColSum(total_customer_by_city_df, "total_customer")
        = Cardinality({main_df[i].customer_unique_id : i \in DOMAIN main_df})

\* C3, amended: the total_customer values summed over all cities equal the
\* number of distinct (customer_unique_id, customer_city) pairs of the filtered
\* collection, hence the number of distinct customer_unique_id values provided
\* every customer has all its rows in one city.
C3_CityTotal ==
    /\ ColSum(total_customer_by_city_df, "total_customer")
           = Cardinality({<<main_df[i].customer_unique_id, main_df[i].customer_city>> :
                             i \in DOMAIN main_df})
    /\ CustomersWithinOneCity =>
           ColSum(total_customer_by_city_df, "total_customer")
               = Cardinality({main_df[i].customer_unique_id : i \in DOMAIN main_df})

\* Two cities, two customers each in one city, one of them with two rows.
C3_Witness ==
    /\ CustomersWithinOneCity
    /\ Len(main_df) = 3
    /\ Len(total_customer_by_city_df) = 2
    /\ ColSum(total_customer_by_city_df, "total_customer") = 2

----------------------------------------------------------------------------
(* Product-Category Sales *)

\* Position in main_df of the first row of a category.
FirstSeen(cat) ==
    CHOOSE i \in DOMAIN main_df :
        /\ main_df[i].product_category_name_english = cat
        /\ \A j \in 1..(i - 1) : main_df[j].product_category_name_english # cat

NonIncreasingTotalOrder ==
    \A k \in 1..(Len(product_category_sales_df) - 1) :
        product_category_sales_df[k].total_order
            >= product_category_sales_df[k + 1].total_order

\* C6 as stated: the rows of create_product_category_sales_df are in
\* non-increasing order of total_order, and categories with equal total_order
\* appear in the order in which their category was first encountered in the
\* input rows.  Stated for the builds whose sort leaves equal keys in place,
\* the ones most favourable to a stable tie-break.
C6_OrderingAsStated ==
    quicksort_keeps_ties =>
    /\ NonIncreasingTotalOrder
    /\ \A k \in 1..(Len(product_category_sales_df) - 1) :
           product_category_sales_df[k].total_order
               = product_category_sales_df[k + 1].total_order
           => FirstSeen(product_category_sales_df[k].product_category_name_english)
                  < FirstSeen(product_category_sales_df[k + 1].product_category_name_english)

\* C6, amended: create_product_category_sales_df returns one row for each
\* category of the filtered rows, with total_order its number of distinct
\* order_id values, in non-increasing order of total_order.  The order of
\* categories with equal total_order does not follow the input rows: the
\* groups are formed in ascending order of the category name and sorted with
\* pandas' default quicksort, which is not stable, so equal categories appear
\* in ascending name order when the sort leaves equal keys in place and in a
\* build-dependent order otherwise (the same one on every run).
C6_Ordering ==
    /\ NonIncreasingTotalOrder
    /\ Len(product_category_sales_df)
           = Cardinality({main_df[i].product_category_name_english : i \in DOMAIN main_df})
    /\ \A k \in DOMAIN product_category_sales_df :
           product_category_sales_df[k].total_order
               = Cardinality({main_df[i].order_id :
                     i \in {j \in DOMAIN main_df :
                              main_df[j].product_category_name_english
                                  = product_category_sales_df[k].product_category_name_english}})
    /\ \A k \in 1..(Len(product_category_sales_df) - 1) :
           (/\ quicksort_keeps_ties
            /\ product_category_sales_df[k].total_order
                   = product_category_sales_df[k + 1].total_order)
           => StrRank(product_category_sales_df[k].product_category_name_english)
                  < StrRank(product_category_sales_df[k + 1].product_category_name_english)

\* Two categories with as many orders each, the one met first in the input
\* rows second in the table, under a sort that leaves equal keys in place.
C6_Witness ==
    /\ quicksort_keeps_ties
    /\ Len(product_category_sales_df) = 2
    /\ product_category_sales_df[1].total_order = product_category_sales_df[2].total_order
    /\ FirstSeen(product_category_sales_df[2].product_category_name_english)
           < FirstSeen(product_category_sales_df[1].product_category_name_english)

----------------------------------------------------------------------------
(* RFM *)

\* The rows of main_df of one customer.
RowsOfCustomer(c) == {i \in DOMAIN main_df : main_df[i].customer_unique_id = c}

\* The latest purchase of a customer of main_df.
LatestPurchase(c) ==
    CHOOSE t \in {main_df[i].order_purchase_timestamp : i \in RowsOfCustomer(c)} :
        \A i \in RowsOfCustomer(c) : main_df[i].order_purchase_timestamp <= t

SingleOrderOnAug1(c) ==
    /\ RowsOfCustomer(c) # {}
    /\ \A i, j \in RowsOfCustomer(c) : main_df[i].order_id = main_df[j].order_id
    /\ \A i \in RowsOfCustomer(c) :
           dt_date(main_df[i].order_purchase_timestamp) = DaysFromCivil(2018, 8, 1)

\* Sum of price over a set of rows of main_df.
RECURSIVE PriceOf(_)
PriceOf(I) ==
    IF I = {} THEN 0
    ELSE LET i == CHOOSE x \in I : TRUE IN main_df[i].price + PriceOf(I \ {i})

\* C10 as stated: a customer whose only filtered order was purchased on
\* calendar day 2018-08-01, at any time of that day, gets recency = 33,
\* frequency = 1 and monetary equal to the sum of price of that order's rows.
C10_RecencyAsStated ==
    \A k \in DOMAIN rfm_df :
        SingleOrderOnAug1(rfm_df[k].customer_unique_id) =>
            /\ rfm_df[k].recency = 33
            /\ rfm_df[k].frequency = 1
            /\ rfm_df[k].monetary = PriceOf(RowsOfCustomer(rfm_df[k].customer_unique_id))

\* C10, amended: a customer whose only filtered order was purchased on
\* calendar day 2018-08-01 gets frequency = 1, monetary equal to the sum of
\* price of that order's rows, and recency = 33 if the latest purchase time of
\* the order is 09:06:57 or earlier, recency = 32 if it is later in the day
\* (recency counts whole 24-hour periods up to 2018-09-03 09:06:57).
C10_Recency ==
    \A k \in DOMAIN rfm_df :
        SingleOrderOnAug1(rfm_df[k].customer_unique_id) =>
            /\ rfm_df[k].recency =
                   IF LatestPurchase(rfm_df[k].customer_unique_id)
                          <= Timestamp(2018, 8, 1, 9, 6, 57)
                   THEN 33 ELSE 32
            /\ rfm_df[k].frequency = 1
            /\ rfm_df[k].monetary = PriceOf(RowsOfCustomer(rfm_df[k].customer_unique_id))

\* One customer with an order of two rows at 09:06:57 beside a customer with an
\* order at 09:06:58.
C10_Witness ==
    /\ Len(rfm_df) = 2
    /\ \A k \in DOMAIN rfm_df : SingleOrderOnAug1(rfm_df[k].customer_unique_id)
    /\ \E k \in DOMAIN rfm_df : rfm_df[k].recency = 33 /\ rfm_df[k].monetary = 4
    /\ \E k \in DOMAIN rfm_df : rfm_df[k].recency = 32

\* C7: for every filtered row collection with K distinct customers (any K, also
\* K larger than the length of the hard-coded index), row i (0 <= i < K) of
\* create_rfm_df has customer_label_id "C" followed by i, so every row has a
\* label and all labels are distinct.
C7_LabelsAsStated ==
    /\ \A k \in DOMAIN rfm_df :
           rfm_df[k].customer_label_id = <<"C">> \o astype_str(k - 1)
    /\ \A k, l \in DOMAIN rfm_df :
           k # l => rfm_df[k].customer_label_id # rfm_df[l].customer_label_id

====
